---- MODULE Spec2Model ----
(***************************************************************************)
(* Model of ai_benchmark.py: discovery of the GPU devices, the SR-IOV      *)
(* (isolation) signal, the per-device benchmark task, the uniform and the  *)
(* staged schedule of run_benchmarks / run_parallel_gpu_benchmarks, and    *)
(* the summary printed by print_summary.                                   *)
(*                                                                         *)
(* Strings the code inspects character by character (device identifiers,   *)
(* the sysfs file content, the child's output) are sequences of tokens.    *)
(***************************************************************************)
EXTENDS Integers, Sequences, FiniteSets, TLC

VARIABLES
    available_devices, \* core.available_devices, as the runtime reports it
    numvfs_file,       \* state of /sys/class/drm/card1/device/sriov_numvfs
    pc,                \* position of the main thread
    gpu_devices,       \* main(): the filtered device list
    sriov,             \* run_benchmarks: outcome of is_sriov_enabled()
    batch,             \* run_parallel_gpu_benchmarks: its gpu_devices argument
    show_summary,      \* run_parallel_gpu_benchmarks: its show_summary argument
    nsubmitted,        \* how many of batch have been submitted to the executor
    task,              \* per device: state of its benchmark_gpu call
    child,             \* per device: how its benchmark_app child process ended
    ret,               \* per device: the tuple benchmark_gpu returned
    launched,          \* per device: number of benchmark_app launches so far
    results,           \* run_parallel_gpu_benchmarks: the results dict
    all_results,       \* run_benchmarks: the all_results dict
    printed,           \* the summaries printed so far, each a sequence of lines
    exit_code,         \* what main returned (or that it raised)
    parse_arg,         \* parse_fps_from_output on its own: its argument
    parse_ret          \* parse_fps_from_output on its own: what it did

vars == <<available_devices, numvfs_file, pc, gpu_devices, sriov, batch,
          show_summary, nsubmitted, task, child, ret, launched, results,
          all_results, printed, exit_code, parse_arg, parse_ret>>

-----------------------------------------------------------------------------
(* Bounds of the model *)

\* longest list of devices the runtime reports
MaxDevices == 3
\* longest content of the sriov_numvfs file
MaxFileLen == 3
\* longest run of digits and dots after the marker in a generated output
MaxNumLen == 3

-----------------------------------------------------------------------------
(* Device identifiers and their lexical order *)

CPU == <<"C", "P", "U">>
GPU_0 == <<"G", "P", "U", ".", "0">>
GPU_2 == <<"G", "P", "U", ".", "2">>
GPU_10 == <<"G", "P", "U", ".", "1", "0">>

\* the devices a host of the model can have
HostDevices == {CPU, GPU_0, GPU_2, GPU_10}
GpuNames == {GPU_0, GPU_2, GPU_10}

\* code point of a character (Python compares strings by code point)
Ord(c) ==
    CASE c = " " -> 32 [] c = "+" -> 43 [] c = "-" -> 45 [] c = "." -> 46
      [] c = "0" -> 48 [] c = "1" -> 49 [] c = "2" -> 50 [] c = "3" -> 51
      [] c = "4" -> 52 [] c = "5" -> 53 [] c = "6" -> 54 [] c = "7" -> 55
      [] c = "8" -> 56 [] c = "9" -> 57 [] c = "C" -> 67 [] c = "G" -> 71
      [] c = "P" -> 80 [] c = "U" -> 85 [] c = "x" -> 120

RECURSIVE StrLess(_, _)
\* a < b on Python strings
StrLess(a, b) ==
    IF b = <<>> THEN FALSE
    ELSE IF a = <<>> THEN TRUE
    ELSE IF Ord(Head(a)) # Ord(Head(b)) THEN Ord(Head(a)) < Ord(Head(b))
    ELSE StrLess(Tail(a), Tail(b))

\* device.startswith('GPU')
StartsWithGPU(device) ==
    Len(device) >= 3 /\ SubSeq(device, 1, 3) = <<"G", "P", "U">>

Range(s) == {s[i] : i \in 1..Len(s)}

\* all sequences over S of length at most n
RECURSIVE SeqsUpTo(_, _)
SeqsUpTo(S, n) ==
    IF n = 0 THEN {<<>>}
    ELSE LET shorter == SeqsUpTo(S, n - 1)
         IN shorter \cup {Append(s, x) : s \in {t \in shorter : Len(t) = n - 1},
                                         x \in S}

\* the sequences of SeqsUpTo(S, n) without repetition
InjSeqs(S, n) ==
    {s \in SeqsUpTo(S, n) : \A i, j \in 1..Len(s) : s[i] = s[j] => i = j}

\* get_available_gpus: the list comprehension over available_devices
get_available_gpus(devices) == SelectSeq(devices, StartsWithGPU)

-----------------------------------------------------------------------------
(* is_sriov_enabled *)

IsSpace(c) == c \in {" ", "\n", "\t"}
IsDigit(c) == c \in {"0", "1", "2", "3", "4", "5", "6", "7", "8", "9"}
DigitVal(c) == Ord(c) - 48

RECURSIVE LStrip(_)
LStrip(s) == IF s # <<>> /\ IsSpace(Head(s)) THEN LStrip(Tail(s)) ELSE s

RECURSIVE RStrip(_)
RStrip(s) ==
    IF s # <<>> /\ IsSpace(s[Len(s)]) THEN RStrip(SubSeq(s, 1, Len(s) - 1)) ELSE s

\* str.strip()
Strip(s) == RStrip(LStrip(s))

RECURSIVE DigitsValue(_)
\* value of a non-empty run of decimal digits
DigitsValue(s) ==
    IF s = <<>> THEN 0
    ELSE 10 * DigitsValue(SubSeq(s, 1, Len(s) - 1)) + DigitVal(s[Len(s)])

AllDigits(s) == s # <<>> /\ \A i \in 1..Len(s) : IsDigit(s[i])

\* int(text): [ok, value]; ok = FALSE stands for ValueError
PyInt(text) ==
    LET s == Strip(text)
        signed == s # <<>> /\ Head(s) \in {"+", "-"}
        body == IF signed THEN Tail(s) ELSE s
    IN IF AllDigits(body)
       THEN [ok |-> TRUE,
             value |-> IF signed /\ Head(s) = "-" THEN 0 - DigitsValue(body)
                       ELSE DigitsValue(body)]
       ELSE [ok |-> FALSE, value |-> 0]

\* issubclass(exc, cls) for the exception classes of the model
IsSubclass(exc, cls) ==
    \/ exc = cls
    \/ cls = "Exception" /\ exc # "KeyboardInterrupt"
    \/ cls = "OSError" /\ exc \in {"FileNotFoundError", "PermissionError"}
    \/ cls = "ValueError" /\ exc = "UnicodeDecodeError"

\* the classes named by the except clause of is_sriov_enabled
SriovCaught == {"FileNotFoundError", "ValueError", "PermissionError"}

\* What open() and f.read() do with the file: "" when the text is read, else
\* the exception raised.
ReadError(file) == file.error

\* is_sriov_enabled(): [raised, value]; raised = "" when it returns value
is_sriov_enabled(file) ==
    LET exc == IF ReadError(file) # "" THEN ReadError(file)
               ELSE IF ~PyInt(file.content).ok THEN "ValueError"
               ELSE ""
    IN IF exc = "" THEN [raised |-> "", value |-> PyInt(file.content).value > 0]
       ELSE IF \E cls \in SriovCaught : IsSubclass(exc, cls)
            THEN [raised |-> "", value |-> FALSE]
       ELSE [raised |-> exc, value |-> FALSE]

-----------------------------------------------------------------------------
(* parse_fps_from_output *)

(* An output text is a sequence of tokens.  The words the pattern spells out
   ("INFO", "Throughput:", "FPS") are one token each, as are their lower-case
   spellings, which the pattern does not accept; every other token is one
   character. *)

IsNumChar(c) == IsDigit(c) \/ c = "."

RECURSIVE SkipSpace(_, _)
\* \s* from position i: the first position at or after i that holds no space
SkipSpace(text, i) ==
    IF i <= Len(text) /\ IsSpace(text[i]) THEN SkipSpace(text, i + 1) ELSE i

RECURSIVE SkipNum(_, _)
\* [\d.]* from position i (greedy; the classes that follow are disjoint from
\* it, so backtracking never shortens the run)
SkipNum(text, i) ==
    IF i <= Len(text) /\ IsNumChar(text[i]) THEN SkipNum(text, i + 1) ELSE i

TokenAt(text, i, tok) == i <= Len(text) /\ text[i] = tok

\* the pattern \[\s*INFO\s*\]\s*Throughput:\s*([\d.]+)\s*FPS anchored at i:
\* <<group 1>> if it matches there, <<>> if not
MatchAt(text, i) ==
    LET i1 == SkipSpace(text, i + 1)
        i2 == SkipSpace(text, i1 + 1)
        i3 == SkipSpace(text, i2 + 1)
        i4 == SkipSpace(text, i3 + 1)
        i5 == SkipNum(text, i4)
        i6 == SkipSpace(text, i5)
    IN IF /\ TokenAt(text, i, "[")
          /\ TokenAt(text, i1, "INFO")
          /\ TokenAt(text, i2, "]")
          /\ TokenAt(text, i3, "Throughput:")
          /\ i5 > i4
          /\ TokenAt(text, i6, "FPS")
       THEN <<SubSeq(text, i4, i5 - 1)>>
       ELSE <<>>

\* re.search(pattern, output): group 1 of the leftmost match, <<>> for None
Search(text) ==
    LET hits == {i \in 1..Len(text) : MatchAt(text, i) # <<>>}
    IN IF hits = {} THEN <<>>
       ELSE MatchAt(text, CHOOSE i \in hits : \A j \in hits : i <= j)

RECURSIVE StripZeros(_)
StripZeros(s) ==
    IF s # <<>> /\ s[Len(s)] = "0" THEN StripZeros(SubSeq(s, 1, Len(s) - 1)) ELSE s

(* float(s) for s made of digits and dots.  A float is the decimal it was
   read from, num / 10^scale with no trailing zero counted in scale: two short
   decimals give the same double exactly when these agree.  ok = FALSE stands
   for ValueError. *)
PyFloat(s) ==
    LET dots == {i \in 1..Len(s) : s[i] = "."}
        dot == IF dots = {} THEN Len(s) + 1 ELSE CHOOSE i \in dots : TRUE
        whole == SubSeq(s, 1, dot - 1)
        frac == StripZeros(SubSeq(s, dot + 1, Len(s)))
    IN IF Cardinality(dots) <= 1 /\ Len(s) - Cardinality(dots) >= 1
       THEN [ok |-> TRUE, num |-> DigitsValue(whole \o frac), scale |-> Len(frac)]
       ELSE [ok |-> FALSE, num |-> 0, scale |-> 0]

\* parse_fps_from_output(output): [raised, fps]; fps is <<>> for None
parse_fps_from_output(output) ==
    LET match == Search(output)
    IN IF match = <<>> THEN [raised |-> "", fps |-> <<>>]
       ELSE IF PyFloat(match[1]).ok
            THEN [raised |-> "",
                  fps |-> <<[num |-> PyFloat(match[1]).num,
                             scale |-> PyFloat(match[1]).scale]>>]
       ELSE [raised |-> "ValueError", fps |-> <<>>]

\* parse_fps_from_output has not been called
NoParse == [raised |-> "none", fps |-> <<>>]

-----------------------------------------------------------------------------
(* benchmark_gpu *)

(* How the child process of one benchmark_gpu call ends: kind is "completed"
   (subprocess.run returned; stdout, stderr and returncode are the child's) or
   the exception subprocess.run raised. *)
Completed(out, err, rc) ==
    [kind |-> "completed", stdout |-> out, stderr |-> err, returncode |-> rc]
Failed(exc) ==
    [kind |-> exc, stdout |-> <<>>, stderr |-> <<>>, returncode |-> 0]
NoChild == Failed("none")

\* str(e)
ExcText(exc) ==
    CASE exc = "ValueError" -> "could not convert string to float"
      [] exc = "PermissionError" -> "[Errno 13] Permission denied: 'benchmark_app'"
      [] OTHER -> exc

Return(device, fps, error) ==
    [raised |-> "", device |-> device, fps |-> fps, error |-> error]
Raise(exc) == [raised |-> exc, device |-> <<>>, fps |-> <<>>, error |-> <<>>]
NoReturn == Raise("none")

\* benchmark_gpu without its last except clause: an exception that is neither a
\* timeout nor a missing executable leaves the call
benchmark_gpu_NoCatchAll(device, c) ==
    LET exc == IF c.kind # "completed" THEN c.kind
               ELSE parse_fps_from_output(c.stdout \o c.stderr).raised
        fps == parse_fps_from_output(c.stdout \o c.stderr).fps
    IN IF exc = ""
       THEN IF fps = <<>>
            THEN Return(device, <<>>, <<"Failed to parse FPS from output">>)
            ELSE Return(device, fps, <<>>)
       ELSE IF exc = "TimeoutExpired"
            THEN Return(device, <<>>, <<"Benchmark timed out">>)
       ELSE IF exc = "FileNotFoundError"
            THEN Return(device, <<>>, <<"benchmark_app not found in PATH">>)
       ELSE Raise(exc)

\* the exception the try body of benchmark_gpu raises, "" if none
TryBodyRaises(c) ==
    IF c.kind # "completed" THEN c.kind
    ELSE parse_fps_from_output(c.stdout \o c.stderr).raised

\* benchmark_gpu with subprocess.run(check=True): a non-zero exit status of
\* the child raises CalledProcessError, which the last except clause reports
benchmark_gpu_CheckReturncode(device, c) ==
    LET exc == IF c.kind = "completed" /\ c.returncode # 0
               THEN "CalledProcessError"
               ELSE TryBodyRaises(c)
        fps == parse_fps_from_output(c.stdout \o c.stderr).fps
    IN IF exc = ""
       THEN IF fps = <<>>
            THEN Return(device, <<>>, <<"Failed to parse FPS from output">>)
            ELSE Return(device, fps, <<>>)
       ELSE IF exc = "TimeoutExpired"
            THEN Return(device, <<>>, <<"Benchmark timed out">>)
       ELSE IF exc = "FileNotFoundError"
            THEN Return(device, <<>>, <<"benchmark_app not found in PATH">>)
       ELSE Return(device, <<>>, <<"Error: ", ExcText(exc)>>)

\* benchmark_gpu(model_path, device, duration), given how its child ends
benchmark_gpu(device, c) ==
    LET exc == TryBodyRaises(c)
        fps == parse_fps_from_output(c.stdout \o c.stderr).fps
    IN IF exc = ""
       THEN IF fps = <<>>
            THEN Return(device, <<>>, <<"Failed to parse FPS from output">>)
            ELSE Return(device, fps, <<>>)
       ELSE IF IsSubclass(exc, "TimeoutExpired")
            THEN Return(device, <<>>, <<"Benchmark timed out">>)
       ELSE IF IsSubclass(exc, "FileNotFoundError")
            THEN Return(device, <<>>, <<"benchmark_app not found in PATH">>)
       ELSE IF IsSubclass(exc, "Exception")
            THEN Return(device, <<>>, <<"Error: ", ExcText(exc)>>)
       ELSE Raise(exc)

-----------------------------------------------------------------------------
(* dicts and print_summary *)

(* A dict is the sequence of its items in insertion order, keys distinct. *)
Keys(d) == {d[i].key : i \in 1..Len(d)}

\* d[key] = (fps, error)
DictSet(d, key, fps, error) ==
    IF key \in Keys(d)
    THEN [i \in 1..Len(d) |->
            IF d[i].key = key THEN [key |-> key, fps |-> fps, error |-> error]
            ELSE d[i]]
    ELSE Append(d, [key |-> key, fps |-> fps, error |-> error])

RECURSIVE DictUpdate(_, _)
\* d.update(other)
DictUpdate(d, other) ==
    IF other = <<>> THEN d
    ELSE DictUpdate(DictSet(d, Head(other).key, Head(other).fps, Head(other).error),
                    Tail(other))

RECURSIVE SortedInsert(_, _)
\* x placed after every item of the sorted list whose key is not above its own
SortedInsert(sorted, x) ==
    IF sorted = <<>> THEN <<x>>
    ELSE IF StrLess(x.key, Head(sorted).key) THEN <<x>> \o sorted
    ELSE <<Head(sorted)>> \o SortedInsert(Tail(sorted), x)

RECURSIVE SortByDevice(_)
\* list.sort(key=lambda x: x[0]): stable, ascending by device name
SortByDevice(list) ==
    IF list = <<>> THEN <<>>
    ELSE SortedInsert(SortByDevice(SubSeq(list, 1, Len(list) - 1)), list[Len(list)])

DigitChar(n) ==
    CASE n = 0 -> "0" [] n = 1 -> "1" [] n = 2 -> "2" [] n = 3 -> "3" [] n = 4 -> "4"
      [] n = 5 -> "5" [] n = 6 -> "6" [] n = 7 -> "7" [] n = 8 -> "8" [] n = 9 -> "9"

RECURSIVE IntToStr(_)
IntToStr(n) ==
    IF n < 10 THEN <<DigitChar(n)>> ELSE IntToStr(n \div 10) \o <<DigitChar(n % 10)>>

RECURSIVE Pow10(_)
Pow10(k) == IF k = 0 THEN 1 ELSE 10 * Pow10(k - 1)

(* f"{fps:.2f}": the value rounded to hundredths, as text.  A value of more
   than two decimals is rounded to the nearest hundredth; the outputs of the
   model hold no value that lies halfway between two hundredths. *)
FormatFps(fps) ==
    LET unit == Pow10(fps.scale)
        scaled == fps.num * 100
        hundredths == IF 2 * (scaled % unit) > unit THEN scaled \div unit + 1
                      ELSE scaled \div unit
    IN IntToStr(hundredths \div 100) \o <<".">>
       \o <<DigitChar((hundredths \div 10) % 10), DigitChar(hundredths % 10)>>

Line(kind, device, text) == [kind |-> kind, device |-> device, text |-> text]

IsSuccess(item) == item.fps # <<>>
IsFailure(item) == item.fps = <<>>

\* successful_results left in the order of the dict
SuccessfulResults_Unsorted(d) == SelectSeq(d, IsSuccess)

\* successful_results sorted with reverse=True
SuccessfulResults_Descending(d) ==
    LET up == SortByDevice(SelectSeq(d, IsSuccess))
    IN [i \in 1..Len(up) |-> up[Len(up) + 1 - i]]

\* the successful_results list of print_summary after its sort
SuccessfulResults(d) == SortByDevice(SelectSeq(d, IsSuccess))

\* the failed_results list of print_summary
FailedResults(d) == SelectSeq(d, IsFailure)

\* print_summary(model_path, results): the lines it prints
print_summary(d) ==
    LET ok == SuccessfulResults(d)
        bad == FailedResults(d)
    IN <<Line("rule", <<>>, <<>>)>>
       \o (IF ok # <<>>
           THEN <<Line("model", <<>>, <<>>)>>
                \o [i \in 1..Len(ok) |-> Line("success", ok[i].key, FormatFps(ok[i].fps[1]))]
           ELSE <<>>)
       \o (IF bad # <<>>
           THEN <<Line("failed_header", <<>>, <<>>)>>
                \o [i \in 1..Len(bad) |-> Line("failure", bad[i].key, bad[i].error)]
           ELSE <<>>)
       \o <<Line("rule", <<>>, <<>>)>>

-----------------------------------------------------------------------------
(* The inputs of a run *)

File(error, content) == [error |-> error, content |-> content]

\* the sriov_numvfs files of the runs of the scheduler
SchedFiles ==
    {File("FileNotFoundError", <<>>), File("PermissionError", <<>>),
     File("OSError", <<>>), File("", <<"x">>), File("", <<"0", "\n">>),
     File("", <<"2", "\n">>)}

Out100 ==
    <<"[", " ", "INFO", " ", "]", " ", "Throughput:", " ", " ",
      "1", "0", "0", ".", "0", "0", " ", "FPS">>
Out50 ==
    <<"[", " ", "INFO", " ", "]", " ", "Throughput:", " ", " ",
      "5", "0", ".", "0", "0", " ", "FPS">>
OutNoLine == <<"x", "\n">>
OutBadNumber ==
    <<"[", " ", "INFO", " ", "]", " ", "Throughput:", " ",
      "1", ".", "2", ".", "3", " ", "FPS">>

\* how a child of a run of the scheduler can end
SchedChildren ==
    {Failed("TimeoutExpired"), Failed("FileNotFoundError"), Failed("PermissionError"),
     Completed(Out100, <<>>, 0), Completed(<<"x">>, Out50, 1),
     Completed(OutNoLine, <<>>, 0), Completed(<<>>, OutBadNumber, 0)}

-----------------------------------------------------------------------------
(* The run: main, run_benchmarks, run_parallel_gpu_benchmarks *)

Idle ==
    /\ gpu_devices = <<>>
    /\ sriov = <<>>
    /\ batch = <<>>
    /\ show_summary = FALSE
    /\ nsubmitted = 0
    /\ task = [d \in GpuNames |-> "none"]
    /\ child = [d \in GpuNames |-> NoChild]
    /\ ret = [d \in GpuNames |-> NoReturn]
    /\ launched = [d \in GpuNames |-> 0]
    /\ results = <<>>
    /\ all_results = <<>>
    /\ printed = <<>>
    /\ exit_code = <<>>
    /\ parse_arg = <<>>
    /\ parse_ret = NoParse

Init ==
    /\ available_devices \in InjSeqs(HostDevices, MaxDevices)
    /\ numvfs_file \in SchedFiles
    /\ pc = "main"
    /\ Idle

\* main(): discovery, and the exit with 1 when no GPU is found
Main ==
    /\ pc = "main"
    /\ gpu_devices' = get_available_gpus(available_devices)
    /\ IF gpu_devices' = <<>>
       THEN pc' = "exited" /\ exit_code' = <<1>>
       ELSE pc' = "run_benchmarks" /\ exit_code' = exit_code
    /\ UNCHANGED <<parse_arg, parse_ret, available_devices, numvfs_file, sriov, batch, show_summary,
                   nsubmitted, task, child, ret, launched, results, all_results,
                   printed>>

\* the entry of run_parallel_gpu_benchmarks, up to the creation of the executor
EnterParallel(list, show) ==
    /\ batch' = list
    /\ show_summary' = show
    /\ results' = <<>>
    /\ nsubmitted' = 0
    /\ pc' = IF list = <<>> THEN "collect" ELSE "submit"

IsMainGpu(gpu) == gpu = GPU_0
NotMainGpu(gpu) == gpu # GPU_0

\* sriov_enabled and len(gpu_devices) > 1
Staged == sriov = <<TRUE>> /\ Len(gpu_devices) > 1

\* run_benchmarks choosing the staged schedule for a single device too
RunBenchmarks_AnyCount ==
    /\ pc = "run_benchmarks"
    /\ LET r == is_sriov_enabled(numvfs_file)
       IN IF r.raised # ""
          THEN /\ pc' = "raised"
               /\ UNCHANGED <<sriov, batch, show_summary, results, nsubmitted>>
          ELSE /\ sriov' = <<r.value>>
               /\ IF r.value /\ Len(gpu_devices) > 0
                  THEN /\ pc' = IF \E i \in 1..Len(gpu_devices) : IsMainGpu(gpu_devices[i])
                                THEN "primary" ELSE "remaining"
                       /\ UNCHANGED <<batch, show_summary, results, nsubmitted>>
                  ELSE EnterParallel(gpu_devices, TRUE)
    /\ all_results' = <<>>
    /\ UNCHANGED <<parse_arg, parse_ret, available_devices, numvfs_file, gpu_devices, task, child, ret,
                   launched, printed, exit_code>>

\* run_benchmarks, from its entry to the choice of the schedule
RunBenchmarks ==
    /\ pc = "run_benchmarks"
    /\ LET r == is_sriov_enabled(numvfs_file)
       IN IF r.raised # ""
          THEN /\ pc' = "raised"
               /\ UNCHANGED <<sriov, batch, show_summary, results, nsubmitted>>
          ELSE /\ sriov' = <<r.value>>
               /\ IF r.value /\ Len(gpu_devices) > 1
                  THEN /\ pc' = IF \E i \in 1..Len(gpu_devices) : IsMainGpu(gpu_devices[i])
                                THEN "primary" ELSE "remaining"
                       /\ UNCHANGED <<batch, show_summary, results, nsubmitted>>
                  ELSE EnterParallel(gpu_devices, TRUE)
    /\ all_results' = <<>>
    /\ UNCHANGED <<parse_arg, parse_ret, available_devices, numvfs_file, gpu_devices, task, child, ret,
                   launched, printed, exit_code>>

\* the call for GPU.0 started without waiting for it: the schedule goes on to
\* the remaining GPUs at once
StartPrimary_NoWait ==
    /\ pc = "primary"
    /\ task' = [task EXCEPT ![GPU_0] = "running"]
    /\ launched' = [launched EXCEPT ![GPU_0] = @ + 1]
    /\ pc' = "remaining"
    /\ UNCHANGED <<parse_arg, parse_ret, available_devices, numvfs_file, gpu_devices, sriov, batch,
                   show_summary, nsubmitted, child, ret, results, all_results,
                   printed, exit_code>>

\* the staged schedule: benchmark_gpu is called for GPU.0 and starts its child
StartPrimary ==
    /\ pc = "primary"
    /\ task' = [task EXCEPT ![GPU_0] = "running"]
    /\ launched' = [launched EXCEPT ![GPU_0] = @ + 1]
    /\ pc' = "primary_wait"
    /\ UNCHANGED <<parse_arg, parse_ret, available_devices, numvfs_file, gpu_devices, sriov, batch,
                   show_summary, nsubmitted, child, ret, results, all_results,
                   printed, exit_code>>

\* the staged schedule: the call for GPU.0 returns and its outcome is stored
FinishPrimary ==
    /\ pc = "primary_wait"
    /\ \E c \in SchedChildren :
         LET r == benchmark_gpu(GPU_0, c)
         IN /\ child' = [child EXCEPT ![GPU_0] = c]
            /\ ret' = [ret EXCEPT ![GPU_0] = r]
            /\ IF r.raised # ""
               THEN pc' = "raised" /\ UNCHANGED <<task, all_results>>
               ELSE /\ all_results' = DictSet(all_results, r.device, r.fps, r.error)
                    /\ task' = [task EXCEPT ![GPU_0] = "collected"]
                    /\ pc' = "remaining"
    /\ UNCHANGED <<parse_arg, parse_ret, available_devices, numvfs_file, gpu_devices, sriov, batch,
                   show_summary, nsubmitted, launched, results, printed, exit_code>>

\* the remaining GPUs taken to be all the GPUs: GPU.0 is not filtered out
Remaining_NoFilter ==
    /\ pc = "remaining"
    /\ EnterParallel(gpu_devices, FALSE)
    /\ UNCHANGED <<parse_arg, parse_ret, available_devices, numvfs_file, gpu_devices,
                   sriov, task, child, ret, launched, all_results, printed,
                   exit_code>>

\* the staged schedule: the remaining GPUs are handed to the parallel runner
Remaining ==
    /\ pc = "remaining"
    /\ LET remaining_gpus == SelectSeq(gpu_devices, NotMainGpu)
       IN IF remaining_gpus # <<>>
          THEN EnterParallel(remaining_gpus, FALSE) /\ UNCHANGED printed
          ELSE /\ printed' = Append(printed, print_summary(all_results))
               /\ pc' = "returned"
               /\ UNCHANGED <<batch, show_summary, results, nsubmitted>>
    /\ UNCHANGED <<parse_arg, parse_ret, available_devices, numvfs_file, gpu_devices, sriov, task, child,
                   ret, launched, all_results, exit_code>>

\* ThreadPoolExecutor(max_workers=len(gpu_devices))
\* a pool that never holds more than two workers
MaxWorkers_Capped(list) == IF Len(list) > 2 THEN 2 ELSE Len(list)

MaxWorkers(list) == Len(list)

Running == {d \in GpuNames : task[d] = "running"}

\* executor.submit for the next device of the batch
Submit ==
    /\ pc = "submit"
    /\ nsubmitted < Len(batch)
    /\ task' = [task EXCEPT ![batch[nsubmitted + 1]] = "pending"]
    /\ nsubmitted' = nsubmitted + 1
    /\ pc' = IF nsubmitted' = Len(batch) THEN "collect" ELSE "submit"
    /\ UNCHANGED <<parse_arg, parse_ret, available_devices, numvfs_file, gpu_devices, sriov, batch,
                   show_summary, child, ret, launched, results, all_results,
                   printed, exit_code>>

\* a worker thread takes a submitted call: benchmark_gpu starts its child
StartTask(d) ==
    /\ pc \in {"submit", "collect"}
    /\ task[d] = "pending"
    /\ Cardinality(Running) < MaxWorkers(batch)
    /\ task' = [task EXCEPT ![d] = "running"]
    /\ launched' = [launched EXCEPT ![d] = @ + 1]
    /\ UNCHANGED <<parse_arg, parse_ret, available_devices, numvfs_file, pc, gpu_devices, sriov, batch,
                   show_summary, nsubmitted, child, ret, results, all_results,
                   printed, exit_code>>

\* the child of a worker's call ends and benchmark_gpu returns: the future is done
FinishTask(d) ==
    /\ pc \in {"submit", "collect"}
    /\ task[d] = "running"
    /\ \E c \in SchedChildren :
         /\ child' = [child EXCEPT ![d] = c]
         /\ ret' = [ret EXCEPT ![d] = benchmark_gpu(d, c)]
    /\ task' = [task EXCEPT ![d] = "done"]
    /\ UNCHANGED <<parse_arg, parse_ret, available_devices, numvfs_file, pc, gpu_devices, sriov, batch,
                   show_summary, nsubmitted, launched, results, all_results,
                   printed, exit_code>>

\* one round of the as_completed loop: future.result() and the store in results
Collect(d) ==
    /\ pc = "collect"
    /\ task[d] = "done"
    /\ IF ret[d].raised # ""
       THEN pc' = "raised" /\ UNCHANGED <<task, results>>
       ELSE /\ results' = DictSet(results, ret[d].device, ret[d].fps, ret[d].error)
            /\ task' = [task EXCEPT ![d] = "collected"]
            /\ pc' = pc
    /\ UNCHANGED <<parse_arg, parse_ret, available_devices, numvfs_file, gpu_devices, sriov, batch,
                   show_summary, nsubmitted, child, ret, launched, all_results,
                   printed, exit_code>>

\* the return of the parallel runner with all_results assigned, not updated, in
\* the staged schedule too
ParallelReturn_NoMerge ==
    /\ pc = "collect"
    /\ \A i \in 1..Len(batch) : task[batch[i]] = "collected"
    /\ all_results' = results
    /\ printed' = Append(printed, print_summary(all_results'))
    /\ pc' = "returned"
    /\ UNCHANGED <<parse_arg, parse_ret, available_devices, numvfs_file, gpu_devices, sriov, batch,
                   show_summary, nsubmitted, task, child, ret, launched, results,
                   exit_code>>

\* the loop is exhausted: run_parallel_gpu_benchmarks prints its summary if asked
\* to and returns; run_benchmarks merges and prints (staged) or stores (uniform)
ParallelReturn ==
    /\ pc = "collect"
    /\ \A i \in 1..Len(batch) : task[batch[i]] = "collected"
    /\ LET own == IF show_summary /\ batch # <<>>
                  THEN Append(printed, print_summary(results)) ELSE printed
       IN IF Staged
          THEN /\ all_results' = DictUpdate(all_results, results)
               /\ printed' = Append(own, print_summary(all_results'))
          ELSE /\ all_results' = results
               /\ printed' = own
    /\ pc' = "returned"
    /\ UNCHANGED <<parse_arg, parse_ret, available_devices, numvfs_file, gpu_devices, sriov, batch,
                   show_summary, nsubmitted, task, child, ret, launched, results,
                   exit_code>>

\* main(): return 0
MainReturn ==
    /\ pc = "returned"
    /\ exit_code' = <<0>>
    /\ pc' = "exited"
    /\ UNCHANGED <<parse_arg, parse_ret, available_devices, numvfs_file, gpu_devices, sriov, batch,
                   show_summary, nsubmitted, task, child, ret, launched, results,
                   all_results, printed>>

Next ==
    \/ Main
    \/ RunBenchmarks
    \/ StartPrimary
    \/ FinishPrimary
    \/ Remaining
    \/ Submit
    \/ \E d \in GpuNames : StartTask(d)
    \/ \E d \in GpuNames : FinishTask(d)
    \/ \E d \in GpuNames : Collect(d)
    \/ ParallelReturn
    \/ MainReturn

Spec == Init /\ [][Next]_vars

-----------------------------------------------------------------------------
(* is_sriov_enabled on its own, over the states of the sysfs file *)

FileChars == {"0", "2", "-", " ", "x"}

FileStates ==
    {File(e, <<>>) : e \in {"FileNotFoundError", "PermissionError", "OSError",
                            "UnicodeDecodeError"}}
    \cup {File("", c) : c \in SeqsUpTo(FileChars, MaxFileLen)}

InitSriov ==
    /\ available_devices = <<>>
    /\ numvfs_file \in FileStates
    /\ pc = "is_sriov_enabled"
    /\ Idle

\* one call of is_sriov_enabled
SriovCall ==
    /\ pc = "is_sriov_enabled"
    /\ LET r == is_sriov_enabled(numvfs_file)
       IN IF r.raised # ""
          THEN pc' = "raised" /\ sriov' = sriov
          ELSE pc' = "is_sriov_returned" /\ sriov' = <<r.value>>
    /\ UNCHANGED <<parse_arg, parse_ret, available_devices, numvfs_file, gpu_devices, batch, show_summary,
                   nsubmitted, task, child, ret, launched, results, all_results,
                   printed, exit_code>>

NextSriov == SriovCall

SpecSriov == InitSriov /\ [][NextSriov]_vars

-----------------------------------------------------------------------------
(* benchmark_gpu on its own, over the ways its child can end *)

NumChars == {"0", "2", "."}

RunnerPrefixes ==
    {<<>>, <<"[", "INFO", "]">>, <<"[", " ", "INFO", " ", "]">>, <<"x", "INFO", "]">>}
RunnerMarkers == {<<"Throughput:">>, <<"throughput:">>, <<>>}
RunnerUnits == {<<"FPS">>, <<"fps">>, <<>>}
RunnerGaps == {<<>>, <<" ">>}

\* the children of the calls of benchmark_gpu on its own: every way to fail,
\* and every output made of a prefix, a marker, a number and a unit, written to
\* stdout alone or split between stdout and stderr, with either exit status
RunnerChildren ==
    {Failed(e) : e \in {"TimeoutExpired", "FileNotFoundError", "PermissionError"}}
    \cup UNION {UNION {
           {Completed(pre \o gap \o mark \o gap \o num \o gap \o unit, <<>>, rc),
            Completed(pre \o gap \o mark, gap \o num \o gap \o unit, rc)} :
               pre \in RunnerPrefixes, mark \in RunnerMarkers, gap \in RunnerGaps,
               unit \in RunnerUnits, rc \in {0, 1}} :
           num \in SeqsUpTo(NumChars, MaxNumLen)}

InitRunner ==
    /\ available_devices = <<>>
    /\ numvfs_file = File("FileNotFoundError", <<>>)
    /\ pc = "benchmark_gpu"
    /\ gpu_devices = <<>>
    /\ sriov = <<>>
    /\ batch = <<>>
    /\ show_summary = FALSE
    /\ nsubmitted = 0
    /\ \E d \in {GPU_0} :
         /\ task = [e \in GpuNames |-> IF e = d THEN "running" ELSE "none"]
         /\ launched = [e \in GpuNames |-> IF e = d THEN 1 ELSE 0]
         /\ \E c \in RunnerChildren :
              child = [e \in GpuNames |-> IF e = d THEN c ELSE NoChild]
    /\ ret = [d \in GpuNames |-> NoReturn]
    /\ results = <<>>
    /\ all_results = <<>>
    /\ printed = <<>>
    /\ exit_code = <<>>
    /\ parse_arg = <<>>
    /\ parse_ret = NoParse

\* one call of benchmark_gpu returns
RunnerCall ==
    /\ pc = "benchmark_gpu"
    /\ \E d \in GpuNames :
         /\ task[d] = "running"
         /\ ret' = [ret EXCEPT ![d] = benchmark_gpu(d, child[d])]
         /\ task' = [task EXCEPT ![d] = "done"]
    /\ pc' = "benchmark_gpu_returned"
    /\ UNCHANGED <<parse_arg, parse_ret, available_devices, numvfs_file, gpu_devices, sriov, batch,
                   show_summary, nsubmitted, child, launched, results, all_results,
                   printed, exit_code>>

NextRunner == RunnerCall

SpecRunner == InitRunner /\ [][NextRunner]_vars

-----------------------------------------------------------------------------
(* Vocabulary of the properties *)

Devices == Range(gpu_devices)

\* the call of benchmark_gpu for d has returned
HasReturned(d) == ret[d].raised = ""
TaskSucceeded(d) == HasReturned(d) /\ ret[d].fps # <<>>
TaskFailed(d) == HasReturned(d) /\ ret[d].fps = <<>>

\* the child of d has been started
Started(d) == task[d] \in {"running", "done", "collected"}

\* the run is over: main returned or an exception left it
Stopped == pc \in {"exited", "raised"}

IsSuccessLine(l) == l.kind = "success"
IsFailureLine(l) == l.kind = "failure"
IsOutcomeLine(l) == l.kind \in {"success", "failure"}
SuccessLines(summary) == SelectSeq(summary, IsSuccessLine)
FailureLines(summary) == SelectSeq(summary, IsFailureLine)
NotFailureLine(l) == l.kind # "failure"

\* the dict a schedule builds when every batch completes in submission order
InOrderResults ==
    LET order == IF Staged
                 THEN SelectSeq(gpu_devices, IsMainGpu) \o SelectSeq(gpu_devices, NotMainGpu)
                 ELSE gpu_devices
    IN [i \in 1..Len(order) |->
          [key |-> order[i], fps |-> ret[order[i]].fps, error |-> ret[order[i]].error]]

-----------------------------------------------------------------------------
(* C1: in the staged schedule with GPU.0 among the devices, no task of a
   remaining device is started before the call for GPU.0 has returned, with a
   success or with any failure. *)
C1_StagedBarrier ==
    (Staged /\ GPU_0 \in Devices) =>
        \A d \in GpuNames \ {GPU_0} :
            (task[d] # "none") => (HasReturned(GPU_0) /\ task[GPU_0] = "collected")

\* the primary timed out and a remaining device is running
C1_Witness ==
    /\ Staged
    /\ GPU_0 \in Devices
    /\ child[GPU_0].kind = "TimeoutExpired"
    /\ \E d \in GpuNames \ {GPU_0} : task[d] = "running"

(* C2: every summary printed holds exactly one outcome line per discovered
   device, a success line or a failure line and never both, and at the end of
   run_benchmarks all_results has exactly the discovered devices as its keys. *)
C2_OneOutcomePerDevice ==
    /\ \A k \in 1..Len(printed) :
         /\ Len(SuccessLines(printed[k])) + Len(FailureLines(printed[k]))
              = Len(gpu_devices)
         /\ \A d \in Devices :
              Cardinality({j \in 1..Len(printed[k]) :
                             /\ IsOutcomeLine(printed[k][j])
                             /\ printed[k][j].device = d}) = 1
    /\ (pc \in {"returned", "exited"} /\ gpu_devices # <<>>) =>
         /\ Len(all_results) = Len(gpu_devices)
         /\ Keys(all_results) = Devices

\* a staged run of three devices ended with successes and failures in its summary
C2_Witness ==
    /\ pc = "exited"
    /\ Staged
    /\ Len(gpu_devices) = 3
    /\ Len(printed) = 1
    /\ SuccessLines(printed[1]) # <<>>
    /\ FailureLines(printed[1]) # <<>>

(* C3: a failed task is recorded in the entry of its own device only, no
   exception leaves run_benchmarks once a task has been launched, a submitted
   task can start whatever its siblings' outcomes are, and a run that ends
   has an entry for every device. *)
C3_FailureContained ==
    /\ (pc = "raised") => (\A d \in GpuNames : launched[d] = 0)
    /\ \A i \in 1..Len(results) :
         /\ results[i].fps = ret[results[i].key].fps
         /\ results[i].error = ret[results[i].key].error
    /\ \A i \in 1..Len(all_results) :
         /\ all_results[i].fps = ret[all_results[i].key].fps
         /\ all_results[i].error = ret[all_results[i].key].error
    /\ \A d \in GpuNames : \A e \in GpuNames \ {d} :
         (TaskFailed(d) /\ task[e] = "pending") => ENABLED StartTask(e)
    /\ \A d \in GpuNames :
         (TaskFailed(d) /\ pc \in {"remaining", "submit"}) => ENABLED (Remaining \/ Submit)
    /\ (pc = "exited" /\ gpu_devices # <<>>) =>
         \A d \in Devices : launched[d] = 1 /\ d \in Keys(all_results)

\* a run ended in which one task timed out and another succeeded
C3_Witness ==
    /\ pc = "exited"
    /\ \E d \in Devices : \E e \in Devices \ {d} :
         /\ child[d].kind = "TimeoutExpired"
         /\ TaskSucceeded(e)
         /\ \E i \in 1..Len(all_results) :
              all_results[i].key = e /\ all_results[i].fps # <<>>

(* C4: a run with at least one device that has come to its end has finished
   every task and printed a summary. *)
C4_FinishesWithSummary ==
    (Stopped /\ gpu_devices # <<>>) =>
        /\ \A d \in Devices : task[d] = "collected"
        /\ Len(printed) >= 1

(* C5: in every summary printed the success lines are in non-decreasing lexical
   order of device identifier. *)
C5_SuccessesSorted ==
    \A k \in 1..Len(printed) :
        LET ok == SuccessLines(printed[k])
        IN \A i \in 1..Len(ok) : \A j \in 1..Len(ok) :
             (i < j) => ~StrLess(ok[j].device, ok[i].device)

\* a summary printed from a dict whose successes were inserted out of order
C5_Witness ==
    /\ Len(printed) >= 1
    /\ \E i \in 1..Len(all_results) : \E j \in 1..Len(all_results) :
         /\ i < j
         /\ all_results[i].fps # <<>>
         /\ all_results[j].fps # <<>>
         /\ StrLess(all_results[j].key, all_results[i].key)

(* C6: a summary holds a total line exactly when it holds more than one
   success line. *)
C6_TotalRule ==
    \A k \in 1..Len(printed) :
        (\E j \in 1..Len(printed[k]) : printed[k][j].kind = "total")
            <=> (Len(SuccessLines(printed[k])) > 1)

(* C7, as stated: the summary of a finished run is, line for line, the summary
   of the run in which every batch completes in submission order. *)
C7_SameSummary ==
    (pc = "exited" /\ gpu_devices # <<>>) =>
        printed[Len(printed)] = print_summary(InOrderResults)

(* C7, amended: the summary of a finished run has, line for line, the lines
   other than failure lines of the summary of the run in which every batch
   completes in submission order, and the same failure lines as a set. *)
C7_SameSuccessesAndFailureSet ==
    (pc = "exited" /\ gpu_devices # <<>>) =>
        LET got == printed[Len(printed)]
            want == print_summary(InOrderResults)
        IN /\ SelectSeq(got, NotFailureLine) = SelectSeq(want, NotFailureLine)
           /\ Range(FailureLines(got)) = Range(FailureLines(want))
           /\ Len(got) = Len(want)

\* a finished uniform run whose successes were collected out of submission order
C7_Witness ==
    /\ pc = "exited"
    /\ ~Staged
    /\ Len(all_results) = 3
    /\ all_results # InOrderResults
    /\ Len(SuccessLines(printed[Len(printed)])) >= 2
    /\ Len(FailureLines(printed[Len(printed)])) = 1

(* C8: once the run is over, main has returned 1 exactly when no GPU was
   discovered, no task was launched in that case, and main has returned 0 in
   every other case. *)
C8_ExitCode ==
    Stopped =>
        /\ (exit_code = <<1>>) <=> (gpu_devices = <<>>)
        /\ (gpu_devices = <<>>) => (\A d \in GpuNames : launched[d] = 0)
        /\ (gpu_devices # <<>>) => (exit_code = <<0>>)

(* C9: a call of benchmark_gpu returns one outcome for its device: Timeout when
   the child ran out of time, ExecutableNotFound when it could not be started,
   Other with a message on any other failure of the invocation, and for a child
   that completed Success with the value when the combined output holds a
   throughput line and ParseFailed when it yields no value. *)
C9_Classification ==
    \A d \in GpuNames :
        (pc = "benchmark_gpu_returned" /\ task[d] = "done") =>
            /\ ret[d].raised = ""
            /\ ret[d].device = d
            /\ (child[d].kind = "TimeoutExpired") =>
                 (ret[d].fps = <<>> /\ ret[d].error = <<"Benchmark timed out">>)
            /\ (child[d].kind = "FileNotFoundError") =>
                 (ret[d].fps = <<>> /\ ret[d].error = <<"benchmark_app not found in PATH">>)
            /\ (child[d].kind \notin {"completed", "TimeoutExpired", "FileNotFoundError"}) =>
                 (ret[d].fps = <<>> /\ Len(ret[d].error) = 2 /\ ret[d].error[1] = "Error: ")
            /\ (child[d].kind = "completed") =>
                 LET group == Search(child[d].stdout \o child[d].stderr)
                 IN IF group # <<>> /\ PyFloat(group[1]).ok
                    THEN /\ ret[d].error = <<>>
                         /\ ret[d].fps = <<[num |-> PyFloat(group[1]).num,
                                            scale |-> PyFloat(group[1]).scale]>>
                    ELSE /\ ret[d].fps = <<>>
                         /\ ret[d].error = <<"Failed to parse FPS from output">>

(* C10: is_sriov_enabled never raises, returns false on every failure to read
   or parse the counter, and returns true only for a readable, numeric value
   above zero. *)
C10_SignalRobust ==
    (pc \in {"is_sriov_returned", "raised"}) =>
        /\ pc # "raised"
        /\ (numvfs_file.error # "" \/ ~PyInt(numvfs_file.content).ok) => sriov = <<FALSE>>
        /\ (sriov = <<TRUE>>) =>
             /\ numvfs_file.error = ""
             /\ PyInt(numvfs_file.content).ok
             /\ PyInt(numvfs_file.content).value > 0

-----------------------------------------------------------------------------
(* parse_fps_from_output on its own, over generated output texts *)

ParserTails == {<<>>, <<"\n">> \o Out50}

\* a prefix, a marker, a number and a unit, alone or followed by a second,
\* well-formed throughput line
ParserTexts ==
    UNION {{pre \o gap \o mark \o gap \o num \o gap \o unit \o tail :
               pre \in RunnerPrefixes, mark \in RunnerMarkers, gap \in RunnerGaps,
               unit \in RunnerUnits, tail \in ParserTails} :
           num \in SeqsUpTo(NumChars, MaxNumLen)}

InitParser ==
    /\ available_devices = <<>>
    /\ numvfs_file = File("FileNotFoundError", <<>>)
    /\ pc = "parse_fps_from_output"
    /\ gpu_devices = <<>>
    /\ sriov = <<>>
    /\ batch = <<>>
    /\ show_summary = FALSE
    /\ nsubmitted = 0
    /\ task = [d \in GpuNames |-> "none"]
    /\ child = [d \in GpuNames |-> NoChild]
    /\ ret = [d \in GpuNames |-> NoReturn]
    /\ launched = [d \in GpuNames |-> 0]
    /\ results = <<>>
    /\ all_results = <<>>
    /\ printed = <<>>
    /\ exit_code = <<>>
    /\ parse_arg \in ParserTexts
    /\ parse_ret = NoParse

\* one call of parse_fps_from_output
ParserCall ==
    /\ pc = "parse_fps_from_output"
    /\ parse_ret' = parse_fps_from_output(parse_arg)
    /\ pc' = IF parse_ret'.raised # "" THEN "raised" ELSE "parse_fps_returned"
    /\ UNCHANGED <<parse_arg, available_devices, numvfs_file, gpu_devices, sriov,
                   batch, show_summary, nsubmitted, task, child, ret, launched,
                   results, all_results, printed, exit_code>>

NextParser == ParserCall

SpecParser == InitParser /\ [][NextParser]_vars

(* C11: parse_fps_from_output returns a value or None for every text and never
   raises. *)
C11_ParserNeverRaises ==
    (pc # "parse_fps_from_output") =>
        /\ pc = "parse_fps_returned"
        /\ parse_ret.raised = ""

\* "Throughput:" at position i, then a run of digits and dots, then "FPS", with
\* any whitespace between them: <<the run>>, or <<>> if the text has no such
\* line at i
ThroughputLineAt(text, i) ==
    LET i1 == SkipSpace(text, i + 1)
        i2 == SkipNum(text, i1)
        i3 == SkipSpace(text, i2)
    IN IF TokenAt(text, i, "Throughput:") /\ i2 > i1 /\ TokenAt(text, i3, "FPS")
       THEN <<SubSeq(text, i1, i2 - 1)>>
       ELSE <<>>

\* the positions of the throughput lines of text whose number is a decimal
DecimalLines(text) ==
    {i \in 1..Len(text) :
        /\ ThroughputLineAt(text, i) # <<>>
        /\ PyFloat(ThroughputLineAt(text, i)[1]).ok}

(* C12: for every text that holds "Throughput:", a non-negative decimal X and
   "FPS", with any whitespace and with or without the bracketed prefix, the
   parser returns the X of the first such line. *)
C12_ParserAccepts ==
    (pc # "parse_fps_from_output" /\ DecimalLines(parse_arg) # {}) =>
        LET first == CHOOSE i \in DecimalLines(parse_arg) :
                        \A j \in DecimalLines(parse_arg) : i <= j
            x == PyFloat(ThroughputLineAt(parse_arg, first)[1])
        IN /\ parse_ret.raised = ""
           /\ parse_ret.fps = <<[num |-> x.num, scale |-> x.scale]>>

-----------------------------------------------------------------------------
(* print_summary on its own, over results dicts *)

\* the (fps, error) values of the dicts
SummaryValues ==
    {[fps |-> <<[num |-> 100, scale |-> 0]>>, error |-> <<>>],
     [fps |-> <<[num |-> 5, scale |-> 1]>>, error |-> <<>>],
     [fps |-> <<>>, error |-> <<"Benchmark timed out">>],
     [fps |-> <<>>, error |-> <<"Failed to parse FPS from output">>]}

\* every dict of at most MaxDevices devices, the empty one included
SummaryDicts ==
    UNION {{[i \in 1..Len(ks) |->
                [key |-> ks[i], fps |-> v[i].fps, error |-> v[i].error]] :
               v \in [1..Len(ks) -> SummaryValues]} :
           ks \in InjSeqs(GpuNames, MaxDevices)}

InitSummary ==
    /\ available_devices = <<>>
    /\ numvfs_file = File("FileNotFoundError", <<>>)
    /\ pc = "print_summary"
    /\ gpu_devices = <<>>
    /\ sriov = <<>>
    /\ batch = <<>>
    /\ show_summary = FALSE
    /\ nsubmitted = 0
    /\ task = [d \in GpuNames |-> "none"]
    /\ child = [d \in GpuNames |-> NoChild]
    /\ ret = [d \in GpuNames |-> NoReturn]
    /\ launched = [d \in GpuNames |-> 0]
    /\ results = <<>>
    /\ all_results \in SummaryDicts
    /\ printed = <<>>
    /\ exit_code = <<>>
    /\ parse_arg = <<>>
    /\ parse_ret = NoParse

\* one call of print_summary
SummaryCall ==
    /\ pc = "print_summary"
    /\ printed' = Append(printed, print_summary(all_results))
    /\ pc' = "print_summary_returned"
    /\ UNCHANGED <<parse_arg, parse_ret, available_devices, numvfs_file, gpu_devices,
                   sriov, batch, show_summary, nsubmitted, task, child, ret,
                   launched, results, all_results, exit_code>>

NextSummary == SummaryCall

SpecSummary == InitSummary /\ [][NextSummary]_vars

-----------------------------------------------------------------------------
(* C14: in every step of a run, the items already in results and in
   all_results stay as they are and where they are, at most one item is added
   to results, no key occurs twice, and when run_benchmarks is done the keys
   of all_results are the discovered devices: every key is written once and
   never overwritten, in the as_completed loop and in the staged merge. *)
C14_WriteOnce ==
    [][/\ \A i \in 1..Len(results) :
            i <= Len(results') /\ results'[i] = results[i]
       /\ \A i \in 1..Len(all_results) :
            i <= Len(all_results') /\ all_results'[i] = all_results[i]
       /\ Len(results') <= Len(results) + 1
       /\ Cardinality(Keys(results')) = Len(results')
       /\ Cardinality(Keys(all_results')) = Len(all_results')
       /\ (pc' = "returned") => Keys(all_results') = Range(gpu_devices)]_vars

\* a staged run of three devices has merged the outcome of GPU.0 with those of
\* a batch that completed out of submission order
C14_Witness ==
    /\ pc = "returned"
    /\ Staged
    /\ Len(all_results) = 3
    /\ all_results[1].key = GPU_0
    /\ results[1].key = batch[2]

-----------------------------------------------------------------------------
(* C15: the run is staged exactly when the signal is true and at least two
   devices were discovered.  A staged run calls benchmark_gpu on its own for
   GPU.0 if and only if GPU.0 was discovered, before anything else is launched,
   and its batch is the discovered devices other than GPU.0; any other run
   puts all the discovered devices in one batch. *)
C15_PhaseComposition ==
    LET staged == sriov = <<TRUE>> /\ Len(gpu_devices) >= 2
        scheduled == \/ pc \in {"submit", "collect", "returned"}
                     \/ pc = "exited" /\ exit_code = <<0>>
    IN /\ (pc \in {"primary", "primary_wait", "remaining"}) => staged
       /\ (pc \in {"primary", "primary_wait"}) =>
            /\ GPU_0 \in Devices
            /\ batch = <<>>
            /\ \A d \in GpuNames \ {GPU_0} : launched[d] = 0
       /\ (pc = "remaining") =>
            /\ batch = <<>>
            /\ (GPU_0 \in Devices) <=> (launched[GPU_0] = 1 /\ task[GPU_0] = "collected")
       /\ scheduled =>
            IF staged
            THEN /\ Range(batch) = Devices \ {GPU_0}
                 /\ Len(batch) = Cardinality(Range(batch))
                 /\ ~show_summary
                 /\ (GPU_0 \in Devices) => (launched[GPU_0] = 1 /\ task[GPU_0] = "collected")
                 /\ (GPU_0 \notin Devices) => launched[GPU_0] = 0
            ELSE /\ batch = gpu_devices
                 /\ show_summary
       /\ \A d \in GpuNames :
            /\ (task[d] \in {"pending", "done"}) => d \in Range(batch)
            /\ (launched[d] > 0) => (d \in Range(batch) \/ (staged /\ d = GPU_0))

\* a staged run of three devices, GPU.0 done, the two others running at once
C15_Witness ==
    /\ pc = "collect"
    /\ sriov = <<TRUE>>
    /\ Len(gpu_devices) = 3
    /\ task[GPU_0] = "collected"
    /\ \A d \in GpuNames \ {GPU_0} : task[d] = "running"

-----------------------------------------------------------------------------
(* C16: the pool of a batch of k devices has k workers, so a submitted task
   that has not started can always start, whatever its siblings are doing:
   no task waits for a sibling to finish. *)
C16_FanOut ==
    (pc \in {"submit", "collect"}) =>
        /\ MaxWorkers(batch) = Len(batch)
        /\ Cardinality(Running) <= Len(batch)
        /\ \A d \in GpuNames : (task[d] = "pending") => ENABLED StartTask(d)

\* all the tasks of a batch of three devices are running at once
C16_Witness ==
    /\ pc = "collect"
    /\ Len(batch) = MaxDevices
    /\ \A i \in 1..Len(batch) : task[batch[i]] = "running"

-----------------------------------------------------------------------------
(* C17: in every run the benchmark task of each discovered device is launched
   exactly once: never a second time, whether it failed or was the primary
   device of a staged run, and once by the time the run is over; a device that
   was not discovered is never launched. *)
C17_LaunchedOnce ==
    /\ \A d \in GpuNames :
         /\ launched[d] <= 1
         /\ (launched[d] > 0) => d \in Devices
    /\ (Stopped /\ gpu_devices # <<>>) => \A d \in Devices : launched[d] = 1

(* C18: in every run with at least one device the summary is printed exactly
   once, after the task of every device has returned and been collected, and it
   has one outcome line for every discovered device, the primary included; the
   batch of a staged run prints nothing while it runs. *)
C18_SingleSummary ==
    /\ Len(printed) <= 1
    /\ (pc \in {"primary", "primary_wait", "remaining", "submit", "collect"}) =>
         printed = <<>>
    /\ \A k \in 1..Len(printed) :
         /\ \A d \in Devices : task[d] = "collected" /\ HasReturned(d)
         /\ {printed[k][j].device : j \in {i \in 1..Len(printed[k]) :
                                              IsOutcomeLine(printed[k][i])}} = Devices
    /\ (Stopped /\ gpu_devices # <<>>) => Len(printed) = 1

-----------------------------------------------------------------------------
(* C19: for a child that ended within the timeout, the outcome benchmark_gpu
   returns is the outcome it returns for the same combined output text and any
   other exit status; a child that exits with a non-zero status and prints a
   well-formed throughput line is recorded as a success with that value. *)
C19_ExitStatusIgnored ==
    \A d \in GpuNames :
        (pc = "benchmark_gpu_returned" /\ task[d] = "done"
            /\ child[d].kind = "completed") =>
            LET text == child[d].stdout \o child[d].stderr
                group == Search(text)
            IN /\ \A rc \in {0, 1} :
                    ret[d] = benchmark_gpu(d, Completed(text, <<>>, rc))
               /\ (child[d].returncode # 0 /\ group # <<>> /\ PyFloat(group[1]).ok) =>
                    /\ TaskSucceeded(d)
                    /\ ret[d].error = <<>>
                    /\ ret[d].fps = <<[num |-> PyFloat(group[1]).num,
                                       scale |-> PyFloat(group[1]).scale]>>

\* a child that exited with status 1 and printed a throughput line: a success
C19_Witness ==
    \E d \in GpuNames :
        /\ pc = "benchmark_gpu_returned"
        /\ task[d] = "done"
        /\ child[d].kind = "completed"
        /\ child[d].returncode = 1
        /\ TaskSucceeded(d)

====
